---------------------------- MODULE Spec2Model ----------------------------
(***************************************************************************)
(* A model of release-installer: the platform/asset matcher (platform.ts), *)
(* the streaming tar decoder of extractTarGz (extract.ts) and the          *)
(* download/extract/cleanup sequence of installRelease (index.ts).         *)
(*                                                                         *)
(* Bytes are integers 0..255, byte strings are sequences of bytes, text is *)
(* a sequence of one-character strings.  An optional value (T | null, or   *)
(* T | undefined) is a sequence of length at most one.                     *)
(***************************************************************************)
EXTENDS Integers, Sequences, FiniteSets, TLC

VARIABLES
    \* ---- extractTarGz (extract.ts) ----
    archive,      \* the decompressed input: [entries, len], fixed at Init
    chunking,     \* how gunzip cuts the stream into 'data' chunks
    pos,          \* bytes gunzip has emitted so far
    buffer,       \* let buffer
    currentFile,  \* let currentFile: <<>> (null) or <<[name, size, stream]>>
    awaiting,     \* processChunk invocations suspended at `await fs.mkdir`
    files,        \* output files: path -> [data, open]
    promise,      \* the promise extractTarGz returned
    gunzipEnded,  \* gunzip has emitted 'end'
    spinning,     \* a processChunk invocation is in a loop that cannot exit
    overlapped,   \* a 'data' or 'end' event was handled while an invocation was
                  \* suspended
    failure,      \* <<>> or <<what failed>>: "mkdir", "stream" (the output
                  \* stream emitted 'error'), "upstream" (read or gunzip error)
    events,       \* what the loop did, in order: headers parsed, files opened,
                  \* bodies completed (with the stream offsets they happened at)
    \* ---- matchAssetName / findBestAsset (platform.ts) ----
    assetList,       \* the asset names of the release
    descriptor, \* the platform descriptor: [platform, arch]
    matched,      \* <<>> or <<[assetName, result]>>: a call of matchAssetName
    best,         \* <<>> or <<r>>: the outcome r of a call of findBestAsset
    \* ---- installRelease (index.ts) ----
    ipc,          \* where installRelease is
    opts,         \* options: [binName, force, mapped], mapped = platformMap?.[combined]
    release,      \* <<>> or <<releaseAssetNames>>, once fetched
    selected,     \* selectedReleaseAssetName: <<>> or <<name>>
    outDir,       \* the output directory: [exists, files]
    downloads,    \* calls of downloadAsset started / completed: [started, completed]
    extractionSuccessful,
    binaryFound,
    executables,  \* the paths chmod made executable
    thrown,       \* <<>> or <<e>>: the error on its way through `finally`
    unlinked,     \* the finally block has run unlink(tempPath)
    outcome,      \* "pending", "resolved", or the error installRelease rejected with
    httpStatus,   \* <<>> or <<response.status>> of the release-metadata request
    listedAssets, \* the asset names written to console.error, in order
    outDir0,      \* the output directory as it was when installRelease was called
    \* ---- extractZip (extract.ts) ----
    zpc,          \* where extractZip is
    toolIndex,    \* the position of `tool` in zipTools
    spawned,      \* the commands passed to spawn, in order
    running,      \* the commands whose process was spawned and has not ended
    exits,        \* how each process ended: [command, error, code], code <<>> for null
    lateClose,    \* processes that emitted 'error' and have yet to emit 'close'
    zipPromise,   \* "pending", "resolved", or the error extractZip rejected with
    \* ---- parseTarHeader (extract.ts) ----
    headerBlock,  \* the 512-byte block passed to parseTarHeader, <<>> if none
    parsedHeader  \* <<>> or <<h>>: the value h a call of parseTarHeader returned

tarVars == <<archive, chunking, pos, buffer, currentFile, awaiting, files,
             promise, gunzipEnded, spinning, overlapped, failure, events>>

matchVars == <<assetList, descriptor, matched, best>>

installVars == <<ipc, opts, release, selected, outDir, downloads,
                 extractionSuccessful, binaryFound, executables, thrown,
                 unlinked, outcome, httpStatus, listedAssets, outDir0>>

zipVars == <<zpc, toolIndex, spawned, running, exits, lateClose, zipPromise>>

headerVars == <<headerBlock, parsedHeader>>

vars == <<tarVars, matchVars, installVars, zipVars, headerVars>>

-----------------------------------------------------------------------------
(* Helpers on sequences *)

Drop(s, n) == SubSeq(s, n + 1, Len(s))

Take(s, n) == SubSeq(s, 1, n)

Min(a, b) == IF a < b THEN a ELSE b

Zeros(n) == [i \in 1..n |-> 0]

\* Buffer.indexOf / Array.indexOf: 0-based index of the first x, -1 if none
IndexOf(s, x) ==
    IF \E i \in 1..Len(s) : s[i] = x
    THEN (CHOOSE i \in 1..Len(s) : s[i] = x /\ \A j \in 1..(i - 1) : s[j] # x) - 1
    ELSE -1

-----------------------------------------------------------------------------
(* The tar block size, the literal 512 of extract.ts *)

BlockSize == 512

NameFieldLen == 100

SizeFieldOffset == 124

SizeFieldEnd == 136

TypeFlagOffset == 156

AsciiZero == 48


-----------------------------------------------------------------------------
(* Text conversions used by the header parser.  Only ASCII occurs in the   *)
(* model, so Buffer.toString('utf8') maps each byte to one character.      *)

\* the characters String.prototype.trim removes (ASCII part); NUL is not one
IsWhitespace(b) == b \in {9, 10, 11, 12, 13, 32}

IsOctalDigit(b) == b >= AsciiZero /\ b <= AsciiZero + 7

RECURSIVE TrimLeft(_)
TrimLeft(s) ==
    IF s # <<>> /\ IsWhitespace(Head(s)) THEN TrimLeft(Tail(s)) ELSE s

RECURSIVE TrimRight(_)
TrimRight(s) ==
    IF s # <<>> /\ IsWhitespace(s[Len(s)]) THEN TrimRight(Take(s, Len(s) - 1)) ELSE s

\* String.prototype.trim
Trim(s) == TrimRight(TrimLeft(s))

\* .replace(/\0/g, '')
RemoveNuls(s) == SelectSeq(s, LAMBDA b : b # 0)

RECURSIVE OctalPrefixLen(_)
OctalPrefixLen(s) ==
    IF s # <<>> /\ IsOctalDigit(Head(s)) THEN 1 + OctalPrefixLen(Tail(s)) ELSE 0

RECURSIVE OctalValue(_)
OctalValue(digits) ==
    IF digits = <<>> THEN 0
    ELSE 8 * OctalValue(Take(digits, Len(digits) - 1))
         + (digits[Len(digits)] - AsciiZero)

\* parseInt(str, 8): leading whitespace, an optional sign, then the longest
\* run of octal digits; NaN when that run is empty.
ParseInt8(str) ==
    LET t      == TrimLeft(str)
        signed == t # <<>> /\ Head(t) \in {43, 45}
        body   == IF signed THEN Tail(t) ELSE t
        n      == OctalPrefixLen(body)
        v      == OctalValue(Take(body, n))
    IN  IF n = 0 THEN [nan |-> TRUE, value |-> 0]
        ELSE [nan |-> FALSE, value |-> IF signed /\ Head(t) = 45 THEN 0 - v ELSE v]

\* `x > 0` on a JavaScript number: false for NaN
GreaterThanZero(num) == ~num.nan /\ num.value > 0

\* the type that only the flag '0' makes a file
HeaderType_OnlyAsciiZero(typeFlag) ==
    IF typeFlag = AsciiZero THEN "file" ELSE "directory"

\* typeFlag === 48 || typeFlag === 0 ? 'file' : 'directory'
HeaderType(typeFlag) ==
    IF typeFlag = AsciiZero \/ typeFlag = 0 THEN "file" ELSE "directory"

\* function parseTarHeader(buffer): <<>> is null
parseTarHeader(block) ==
    IF Len(block) < BlockSize THEN <<>>
    ELSE LET nameBytes == Take(block, NameFieldLen)
             isValid   == \E i \in 1..NameFieldLen : nameBytes[i] # 0
             nameEnd   == IndexOf(nameBytes, 0)
             name      == Take(nameBytes, IF nameEnd > 0 THEN nameEnd ELSE NameFieldLen)
             sizeStr   == RemoveNuls(Trim(SubSeq(block, SizeFieldOffset + 1, SizeFieldEnd)))
             size      == IF sizeStr # <<>> THEN ParseInt8(sizeStr)
                          ELSE [nan |-> FALSE, value |-> 0]
             typeFlag  == block[TypeFlagOffset + 1]
             type      == HeaderType(typeFlag)
         IN  IF ~isValid THEN <<>>
             ELSE <<[name |-> name, size |-> size, type |-> type]>>

-----------------------------------------------------------------------------
(* Well-formed archives, built the way test/tar-edge-cases.test.ts builds  *)
(* them: a 512-byte header, the body, zero padding to the block boundary,  *)
(* and two zero blocks at the end.                                         *)

RECURSIVE OctalDigits(_, _)
OctalDigits(n, width) ==
    IF width = 0 THEN <<>>
    ELSE Append(OctalDigits(n \div 8, width - 1), AsciiZero + (n % 8))

RECURSIVE SumRange(_, _, _)
SumRange(s, lo, hi) ==
    IF lo > hi THEN 0
    ELSE IF lo = hi THEN s[lo]
    ELSE LET mid == (lo + hi) \div 2
         IN  SumRange(s, lo, mid) + SumRange(s, mid + 1, hi)

SumBytes(s) == SumRange(s, 1, Len(s))

\* '0000644\0'
FileMode == <<48, 48, 48, 48, 54, 52, 52, 0>>

HeaderSansChecksum(name, size, typeFlag) ==
    name \o Zeros(NameFieldLen - Len(name))                \* 0..99    name
    \o FileMode                                            \* 100..107 mode
    \o Zeros(16)                                           \* 108..123 uid, gid
    \o OctalDigits(size, 12)                               \* 124..135 size
    \o Zeros(12)                                           \* 136..147 mtime
    \o [i \in 1..8 |-> 32]                                 \* 148..155 checksum as spaces
    \o <<typeFlag>>                                        \* 156      type flag
    \o Zeros(BlockSize - (TypeFlagOffset + 1))

TarHeaderBlock(name, size, typeFlag) ==
    LET h        == HeaderSansChecksum(name, size, typeFlag)
        checksum == OctalDigits(SumBytes(h), 6) \o <<0, 32>>
    IN  [i \in 1..BlockSize |->
            IF i > 148 /\ i <= 156 THEN checksum[i - 148] ELSE h[i]]

\* padding that rounds a body of `size` bytes up to the block boundary
FilePadding(size) == Zeros((BlockSize - (size % BlockSize)) % BlockSize)

EndOfArchive == Zeros(2 * BlockSize)

\* the body of the i-th entry: `size` non-zero bytes, different per entry
Body(i, size) == [k \in 1..size |-> 1 + ((k + 16 * i) % 250)]

\* the name of the i-th entry: "d/a", "d/b", ...
EntryName(i) == <<100, 47, 96 + i>>

RECURSIVE TarEntries(_, _)
TarEntries(entries, i) ==
    IF i > Len(entries) THEN <<>>
    ELSE (IF entries[i].name = <<>>
          THEN Zeros(BlockSize)
          ELSE TarHeaderBlock(entries[i].name, entries[i].size, entries[i].typeFlag)
               \o Body(i, entries[i].size) \o FilePadding(entries[i].size))
         \o TarEntries(entries, i + 1)

TarData(entries) == TarEntries(entries, 1) \o EndOfArchive


-----------------------------------------------------------------------------
(* The inputs of the decoder *)

\* at most this many entries in an archive
MaxEntries == 2

\* body sizes: less than a block, exactly a block, more than a block
Sizes == {13, 512, 600}

RegularEntry(i, size) == [name |-> EntryName(i), size |-> size, typeFlag |-> AsciiZero]

EntryLists ==
    UNION {[1..n -> Sizes] : n \in 0..MaxEntries}

EntriesOf(sizes) == [i \in 1..Len(sizes) |-> RegularEntry(i, sizes[i])]

\* complete archives
WellFormedArchives ==
    {[entries |-> EntriesOf(sizes), len |-> Len(TarData(EntriesOf(sizes)))] :
        sizes \in EntryLists}

\* one header and then only `got` of the `size` body bytes it declares
TruncatedCases == {<<100, 50>>, <<600, 50>>, <<600, 550>>}

TruncatedArchives ==
    {[entries |-> <<RegularEntry(1, c[1])>>, len |-> BlockSize + c[2]] :
        c \in TruncatedCases}

\* no bytes at all
EmptyStream == [entries |-> <<>>, len |-> 0]

\* type flags other than '0': NUL (a regular file of old archives), '5' (a
\* directory), 'x' (an extended header, which has a body)
DirectoryFlag == 53

ExtendedHeaderFlag == 120

\* an entry without a name stands for a block of 512 zero bytes
ZeroBlock == [name |-> <<>>, size |-> 0, typeFlag |-> 0]

\* archives with directories, empty files, old-style regular files, extended
\* headers, and zero blocks before an entry
MixedEntryLists == {
    <<[name |-> EntryName(1), size |-> 0, typeFlag |-> DirectoryFlag], RegularEntry(2, 13)>>,
    <<[name |-> EntryName(1), size |-> 0, typeFlag |-> AsciiZero], RegularEntry(2, 13)>>,
    <<[name |-> EntryName(1), size |-> 13, typeFlag |-> 0], RegularEntry(2, 600)>>,
    <<[name |-> EntryName(1), size |-> 13, typeFlag |-> ExtendedHeaderFlag], RegularEntry(2, 13)>>,
    <<ZeroBlock, RegularEntry(2, 13)>>,
    <<RegularEntry(1, 13), ZeroBlock, ZeroBlock, RegularEntry(4, 13)>>
    }

MixedArchives ==
    {[entries |-> entries, len |-> Len(TarData(entries))] : entries \in MixedEntryLists}

Archives == WellFormedArchives \cup TruncatedArchives \cup {EmptyStream} \cup MixedArchives

\* the decompressed bytes of each input
Streams == [a \in Archives |-> Take(TarData(a.entries), a.len)]

-----------------------------------------------------------------------------
(* extractTarGz: the decoder state and the block loop of processChunk      *)

\* resolve(outputDir): "/o"
resolvedOutputDir == <<47, 111>>

\* path.join(dir, name) for a name without ".", ".." or empty segments
Join(dir, name) == dir \o <<47>> \o name

NoFiles == [p \in {} |-> [data |-> <<>>, open |-> FALSE]]

\* createWriteStream(path): the file exists, empty, and is open
CreateWriteStream(fs, path) ==
    [p \in DOMAIN fs \cup {path} |->
        IF p = path THEN [data |-> <<>>, open |-> TRUE] ELSE fs[p]]

\* stream.write(bytes)
StreamWrite(fs, path, bytes) == [fs EXCEPT ![path].data = @ \o bytes]

\* stream.end() that leaves the stream open
StreamEnd_LeavesOpen(fs, path) == fs

\* stream.end()
StreamEnd(fs, path) == [fs EXCEPT ![path].open = FALSE]

\* the padding without the outer `% 512`: a whole block for a body that
\* ends on a block boundary
PaddingSize_NoOuterModulo(availableData) == BlockSize - (availableData % BlockSize)

\* const paddingSize = (512 - (availableData % 512)) % 512
PaddingSize(availableData) == (BlockSize - (availableData % BlockSize)) % BlockSize

\* the loop condition that leaves a buffer of exactly one block alone
LoopGuard_MoreThanBlock(buf) == Len(buf) > BlockSize

\* while (buffer.length >= 512)
LoopGuard(buf) == Len(buf) >= BlockSize

\* a null header taken for the end of the archive: the rest is dropped
SkipBlock_DropsRest(buf) == <<>>

\* if (!header) { buffer = buffer.subarray(512); continue }
SkipBlock(buf) == Drop(buf, BlockSize)

\* availableData without the bound of remainingSize: the whole buffer
AvailableData_WholeBuffer(remainingSize, buf) == Len(buf)

\* const availableData = Math.min(remainingSize, buffer.length)
AvailableData(remainingSize, buf) == Min(remainingSize, Len(buf))

(* The while loop of processChunk, run from its head until the invocation  *)
(* returns ("return"), suspends at `await fs.mkdir` with the header still  *)
(* in the buffer ("await"), or reaches an iteration that changes neither   *)
(* buffer nor currentFile and does not break, so that the loop repeats it  *)
(* for ever ("spin").                                                      *)
RECURSIVE RunLoop(_, _, _, _, _)
RunLoop(buf, cur, fs, ev, delivered) ==
    IF ~LoopGuard(buf)
    THEN [buffer |-> buf, currentFile |-> cur, files |-> fs, events |-> ev,
          out |-> "return"]
    ELSE IF cur = <<>>
    THEN LET header == parseTarHeader(Take(buf, BlockSize))
             ev1    == Append(ev, [kind |-> "header", at |-> delivered - Len(buf)])
         IN  IF header = <<>>
             THEN RunLoop(SkipBlock(buf), cur, fs, ev1, delivered)
             ELSE IF header[1].type = "file" /\ GreaterThanZero(header[1].size)
             THEN [buffer      |-> buf,
                   currentFile |-> <<[name   |-> header[1].name,
                                      size   |-> header[1].size.value,
                                      stream |-> <<>>]>>,
                   files       |-> fs,
                   events      |-> Append(ev1, [kind |-> "open",
                                                name |-> header[1].name,
                                                size |-> header[1].size.value]),
                   out         |-> "await"]
             ELSE RunLoop(Drop(buf, BlockSize), cur, fs, ev1, delivered)
    ELSE LET remainingSize == cur[1].size
             availableData == AvailableData(remainingSize, buf)
             writes        == availableData > 0 /\ cur[1].stream # <<>>
             fs1   == IF writes
                      THEN StreamWrite(fs, cur[1].stream[1], Take(buf, availableData))
                      ELSE fs
             size1 == IF writes THEN remainingSize - availableData ELSE remainingSize
             buf1  == IF writes THEN Drop(buf, availableData) ELSE buf
         IN  IF size1 = 0
             THEN LET fs2 == IF cur[1].stream # <<>>
                             THEN StreamEnd(fs1, cur[1].stream[1]) ELSE fs1
                      paddingSize == PaddingSize(availableData)
                      skips == Len(buf1) >= paddingSize
                      buf2  == IF skips THEN Drop(buf1, paddingSize) ELSE buf1
                      ev2   == Append(ev, [kind      |-> "complete",
                                           end       |-> delivered - Len(buf1),
                                           buffered  |-> Len(buf1),
                                           discarded |-> IF skips THEN paddingSize ELSE 0])
                  IN  RunLoop(buf2, <<>>, fs2, ev2, delivered)
             ELSE IF Len(buf1) < remainingSize
             THEN [buffer      |-> buf1,
                   currentFile |-> <<[cur[1] EXCEPT !.size = size1]>>,
                   files       |-> fs1,
                   events      |-> ev,
                   out         |-> "return"]
             ELSE IF ~writes
             THEN [buffer |-> buf, currentFile |-> cur, files |-> fs, events |-> ev,
                   out |-> "spin"]
             ELSE RunLoop(buf1, <<[cur[1] EXCEPT !.size = size1]>>, fs1, ev, delivered)

\* processChunk after `await fs.mkdir`: currentFile.stream = createWriteStream(
\* outputPath), buffer = buffer.subarray(512), and the loop again
ResumeAfterMkdir(buf, cur, fs, ev, delivered, outputPath) ==
    RunLoop(Drop(buf, BlockSize),
            <<[cur[1] EXCEPT !.stream = <<outputPath>>]>>,
            CreateWriteStream(fs, outputPath), ev, delivered)

\* parseTarHeader, not called on its own
HeaderIdle ==
    /\ headerBlock = <<>>
    /\ parsedHeader = <<>>

\* installRelease, not called
InstallIdle ==
    /\ ipc = "idle"
    /\ opts = [binName |-> <<>>, force |-> FALSE, mapped |-> <<>>]
    /\ release = <<>>
    /\ selected = <<>>
    /\ outDir = [exists |-> FALSE, files |-> {}]
    /\ downloads = [started |-> 0, completed |-> 0]
    /\ extractionSuccessful = FALSE
    /\ binaryFound = FALSE
    /\ executables = {}
    /\ thrown = <<>>
    /\ unlinked = FALSE
    /\ outcome = "pending"
    /\ httpStatus = <<>>
    /\ listedAssets = <<>>
    /\ outDir0 = outDir

\* extractZip, not called
ZipIdle ==
    /\ zpc = "idle"
    /\ toolIndex = 0
    /\ spawned = <<>>
    /\ running = {}
    /\ exits = <<>>
    /\ lateClose = {}
    /\ zipPromise = "pending"

\* the matcher, not in use
MatchIdle ==
    /\ assetList = <<>>
    /\ descriptor = [platform |-> "linux", arch |-> "x64"]
    /\ matched = <<>>
    /\ best = <<>>

\* the chunk lengths of an arbitrarily cut stream: less than a block, a
\* block, more than a block, more than two blocks
AnyChunkSizes == {300, 512, 600, 1062}

\* the chunk gunzip emits next
ChunkSizes ==
    IF chunking = "whole" THEN {archive.len - pos}
    ELSE IF chunking = "byte" THEN {1}
    ELSE {Min(n, archive.len - pos) : n \in AnyChunkSizes}

NextChunk(n) == SubSeq(Streams[archive], pos + 1, pos + n)

\* the state an invocation of the loop leaves behind
AfterLoop(r, suspended) ==
    /\ buffer' = r.buffer
    /\ currentFile' = r.currentFile
    /\ files' = r.files
    /\ events' = r.events
    /\ spinning' = (r.out = "spin")
    /\ awaiting' = IF r.out = "await"
                   THEN Append(suspended, Join(resolvedOutputDir, r.currentFile[1].name))
                   ELSE suspended

\* an 'error' event on a stream without an 'error' listener is thrown as an
\* uncaught exception: the process is gone
Crashed == failure = <<"stream">>

\* after an error the source streams are destroyed and emit nothing more
UpstreamFailed == failure = <<"upstream">>

\* gunzip.on('data', chunk => processChunk(chunk).catch(reject)), up to the
\* first await of the invocation
GunzipData ==
    /\ ~gunzipEnded
    /\ ~spinning
    /\ ~Crashed
    /\ ~UpstreamFailed
    /\ pos < archive.len
    /\ \E n \in ChunkSizes :
        /\ pos' = pos + n
        /\ AfterLoop(RunLoop(buffer \o NextChunk(n), currentFile, files, events,
                              pos + n), awaiting)
    /\ overlapped' = (overlapped \/ awaiting # <<>>)
    /\ UNCHANGED <<archive, chunking, promise, gunzipEnded, failure>>
    /\ UNCHANGED <<matchVars, installVars, zipVars, headerVars>>

\* fs.mkdir resolves and the suspended invocation goes on: it opens the
\* output stream, skips the header and re-enters the loop
MkdirDone ==
    /\ ~spinning
    /\ ~Crashed
    /\ awaiting # <<>>
    /\ LET outputPath == Head(awaiting)
       IN  IF currentFile = <<>>
           THEN \* currentFile.stream = ... on null: TypeError, caught by .catch(reject)
                /\ promise' = IF promise = "pending" THEN "rejected" ELSE promise
                /\ awaiting' = Tail(awaiting)
                /\ UNCHANGED <<buffer, currentFile, files, spinning, events>>
           ELSE /\ AfterLoop(ResumeAfterMkdir(buffer, currentFile, files, events, pos,
                                              outputPath),
                             Tail(awaiting))
                /\ UNCHANGED promise
    /\ UNCHANGED <<archive, chunking, pos, gunzipEnded, overlapped, failure>>
    /\ UNCHANGED <<matchVars, installVars, zipVars, headerVars>>

\* the 'end' handler with `currentFile.stream` in place of
\* `currentFile?.stream`: with no current file the handler throws before it
\* calls resolve()
GunzipEnd_NoOptionalChaining ==
    /\ ~gunzipEnded
    /\ ~spinning
    /\ ~Crashed
    /\ ~UpstreamFailed
    /\ pos = archive.len
    /\ gunzipEnded' = TRUE
    /\ overlapped' = (overlapped \/ awaiting # <<>>)
    /\ files' = IF currentFile # <<>> /\ currentFile[1].stream # <<>>
                THEN StreamEnd(files, currentFile[1].stream[1])
                ELSE files
    /\ promise' = IF promise = "pending" /\ currentFile # <<>> THEN "resolved" ELSE promise
    /\ UNCHANGED <<archive, chunking, pos, buffer, currentFile, awaiting, spinning,
                   failure, events>>
    /\ UNCHANGED <<matchVars, installVars, zipVars, headerVars>>

\* gunzip.on('end', ...)
GunzipEnd ==
    /\ ~gunzipEnded
    /\ ~spinning
    /\ ~Crashed
    /\ ~UpstreamFailed
    /\ pos = archive.len
    /\ gunzipEnded' = TRUE
    /\ overlapped' = (overlapped \/ awaiting # <<>>)
    /\ files' = IF currentFile # <<>> /\ currentFile[1].stream # <<>>
                THEN StreamEnd(files, currentFile[1].stream[1])
                ELSE files
    /\ promise' = IF promise = "pending" THEN "resolved" ELSE promise
    /\ UNCHANGED <<archive, chunking, pos, buffer, currentFile, awaiting, spinning,
                   failure, events>>
    /\ UNCHANGED <<matchVars, installVars, zipVars, headerVars>>

TarInit ==
    /\ archive \in Archives
    /\ chunking \in {"whole", "byte", "any"}
    /\ pos = 0
    /\ buffer = <<>>
    /\ currentFile = <<>>
    /\ awaiting = <<>>
    /\ files = NoFiles
    /\ promise = "pending"
    /\ gunzipEnded = FALSE
    /\ spinning = FALSE
    /\ overlapped = FALSE
    /\ failure = <<>>
    /\ events = <<>>
    /\ MatchIdle
    /\ InstallIdle
    /\ ZipIdle
    /\ HeaderIdle

TarNext == GunzipData \/ MkdirDone \/ GunzipEnd

SpecTar == TarInit /\ [][TarNext]_vars

\* ---- the same decoder when something fails, once in a run ----

\* fs.mkdir rejects: the await throws, processChunk rejects, .catch(reject)
MkdirFail ==
    /\ ~spinning
    /\ failure = <<>>
    /\ awaiting # <<>>
    /\ awaiting' = Tail(awaiting)
    /\ promise' = IF promise = "pending" THEN "rejected" ELSE promise
    /\ failure' = <<"mkdir">>
    /\ UNCHANGED <<archive, chunking, pos, buffer, currentFile, files, gunzipEnded,
                   spinning, overlapped, events>>
    /\ UNCHANGED <<matchVars, installVars, zipVars, headerVars>>

\* the stream createWriteStream returned emits 'error' (the open or a write
\* failed); extractTarGz attaches no listener to it
WriteStreamError ==
    /\ ~spinning
    /\ failure = <<>>
    /\ \E p \in DOMAIN files : files[p].open
    /\ failure' = <<"stream">>
    /\ UNCHANGED <<archive, chunking, pos, buffer, currentFile, awaiting, files,
                   promise, gunzipEnded, spinning, overlapped, events>>
    /\ UNCHANGED <<matchVars, installVars, zipVars, headerVars>>

\* gunzip.on('error', reject), readStream.on('error', reject) and
\* pipeline(readStream, gunzip).catch(reject)
UpstreamError ==
    /\ ~spinning
    /\ failure = <<>>
    /\ ~gunzipEnded
    /\ promise' = IF promise = "pending" THEN "rejected" ELSE promise
    /\ failure' = <<"upstream">>
    /\ UNCHANGED <<archive, chunking, pos, buffer, currentFile, awaiting, files,
                   gunzipEnded, spinning, overlapped, events>>
    /\ UNCHANGED <<matchVars, installVars, zipVars, headerVars>>

TarFaultNext == TarNext \/ MkdirFail \/ WriteStreamError \/ UpstreamError

SpecTarFaults == TarInit /\ [][TarFaultNext]_vars


-----------------------------------------------------------------------------
(* Properties of the decoder *)

\* every event has been handled and no invocation is suspended
Quiescent == gunzipEnded /\ awaiting = <<>> /\ ~spinning

\* no handler will run any more: quiescent, or stuck in a loop for ever
Finished == Quiescent \/ spinning

\* the bytes of each output file
FileData == [p \in DOMAIN files |-> files[p].data]

\* one file per entry at join(dest, name), holding the entry's body
ExpectedFiles(entries) ==
    [p \in {Join(resolvedOutputDir, entries[i].name) : i \in 1..Len(entries)} |->
        LET i == CHOOSE j \in 1..Len(entries) : Join(resolvedOutputDir, entries[j].name) = p
        IN  Body(i, entries[i].size)]

\* C1: a well-formed archive delivered as one chunk is decoded without error
\* into exactly one file per entry, each byte-identical to the entry's body.
C1_RoundTripOneChunk ==
    (chunking = "whole" /\ archive \in WellFormedArchives) =>
        /\ ~spinning
        /\ promise # "rejected"
        /\ (Quiescent => FileData = ExpectedFiles(archive.entries))

C1_Witness ==
    /\ chunking = "whole"
    /\ archive \in WellFormedArchives
    /\ Len(archive.entries) = MaxEntries
    /\ Quiescent
    /\ Cardinality(DOMAIN files) = MaxEntries

\* the decoder run on the whole stream as one chunk, every mkdir resolving
\* before anything else happens
RECURSIVE Drain(_, _)
Drain(r, delivered) ==
    IF r.out = "await"
    THEN Drain(ResumeAfterMkdir(r.buffer, r.currentFile, r.files, r.events, delivered,
                                Join(resolvedOutputDir, r.currentFile[1].name)),
               delivered)
    ELSE r

OneChunkFiles ==
    [a \in Archives |->
        LET r == Drain(RunLoop(Streams[a], <<>>, NoFiles, <<>>, a.len), a.len)
        IN  [p \in DOMAIN r.files |-> r.files[p].data]]

\* C2: delivered one byte per chunk, a well-formed archive yields the files,
\* with the contents, that delivering it as one chunk yields.
C2_ByteChunksSameFiles ==
    (chunking = "byte" /\ archive \in WellFormedArchives /\ Finished) =>
        FileData = OneChunkFiles[archive]

\* C3: a header of size S followed by k < S body bytes and end-of-input gives,
\* without error, an output file holding exactly the k delivered bytes.
C3_TruncatedKeepsDelivered ==
    (archive \in TruncatedArchives /\ Finished) =>
        /\ promise = "resolved"
        /\ FileData =
             [p \in {Join(resolvedOutputDir, archive.entries[1].name)} |->
                Take(Body(1, archive.entries[1].size), archive.len - BlockSize)]

C17_AnyChunkingSameFiles ==
    (chunking = "any" /\ archive \in WellFormedArchives /\ Finished /\ ~overlapped) =>
        FileData = OneChunkFiles[archive]

\* the positions of `events` that hold an event of the kind
EventsOfKind(kind) == {i \in DOMAIN events : events[i].kind = kind}

\* the size the header of the entry completed at position i declared: the
\* size of the last file opened before i
DeclaredSize(i) ==
    LET opens == {j \in EventsOfKind("open") : j < i}
    IN  events[CHOOSE j \in opens : \A k \in opens : k <= j].size

\* the distance from the end of a body of S bytes to the next block boundary
RequiredPadding(S) == (BlockSize - (S % BlockSize)) % BlockSize

\* C18: when a body is complete and the padding is in the accumulator, the
\* decoder discards (512 - (S mod 512)) mod 512 bytes, S being the size the
\* entry's header declared, in however many writes the body arrived.
C18_PaddingFromTotalSize ==
    ~overlapped =>
        \A i \in EventsOfKind("complete") :
            events[i].buffered >= RequiredPadding(DeclaredSize(i)) =>
                events[i].discarded = RequiredPadding(DeclaredSize(i))

\* C19: when a body is complete and the accumulator holds fewer bytes than
\* the padding, the padding is still skipped once it arrives: the next block
\* parsed as a header starts right after the padding.
C19_DeferredPaddingSkipped ==
    ~overlapped =>
        \A i \in EventsOfKind("complete") :
            events[i].buffered < RequiredPadding(DeclaredSize(i)) =>
                \A j \in EventsOfKind("header") :
                    (j > i /\ \A k \in EventsOfKind("header") : ~(i < k /\ k < j)) =>
                        events[j].at = events[i].end + RequiredPadding(DeclaredSize(i))

\* C20: a chunk is handled only after the handling of the chunk before it
\* has run to its end, the awaited mkdir included: no 'data' event is handled
\* while an invocation of processChunk is suspended.
C20_ChunksOneAtATime == [][pos' # pos => awaiting = <<>>]_vars

\* the output streams that are open
OpenFiles == {p \in DOMAIN files : files[p].open}

\* every handler that was started has returned
Waiting == awaiting = <<>> /\ ~spinning

\* C21: while a body is being read and the decoder waits for input, the
\* accumulator is empty: whatever arrived, fewer than 512 bytes included,
\* was written to the output, and remainingBytes went down by that count.
C21_PartialBodyConsumed ==
    (~overlapped /\ Waiting /\ currentFile # <<>>) =>
        /\ buffer = <<>>
        /\ currentFile[1].stream # <<>>
        /\ Len(files[currentFile[1].stream[1]].data) + currentFile[1].size
              = DeclaredSize(Len(events) + 1)

C22_ResolvedMeansDone ==
    promise = "resolved" =>
        /\ awaiting = <<>>
        /\ OpenFiles = {}

C22_NoWriteAfterResolve == promise = "resolved" => files' = files

\* C22: the promise resolves only when every chunk has been processed to the
\* end: at resolution no handler is suspended, every stream that was opened
\* has been ended, and nothing is written afterwards.
C22_CompletionOrdering == [](C22_ResolvedMeansDone) /\ [][C22_NoWriteAfterResolve]_vars

\* C23: when the input ends while a file is current, the decoder ends that
\* file's stream and resolves; after the end of input no stream is open.
C23_EndClosesCurrentFile ==
    (gunzipEnded /\ currentFile # <<>>) =>
        /\ promise = "resolved"
        /\ OpenFiles = {}

\* C24: at most one output is open, and it is the stream of the current file:
\* an output is opened only for the file that has just become current, and a
\* completed entry's stream is ended before the next header is parsed.
C24_SingleCurrentFile ==
    /\ Cardinality(OpenFiles) <= 1
    /\ \A p \in OpenFiles : currentFile # <<>> /\ currentFile[1].stream = <<p>>
    /\ Len(awaiting) <= 1
    /\ awaiting # <<>> => (currentFile # <<>> /\ currentFile[1].stream = <<>>)

\* the second file is being written after the first was completed and closed
C24_Witness ==
    /\ Cardinality(DOMAIN files) = 2
    /\ Cardinality(OpenFiles) = 1
    /\ \E p \in DOMAIN files : ~files[p].open /\ files[p].data # <<>>

\* C25: once every chunk delivered so far has been processed, the
\* accumulator holds fewer than 512 bytes.
C25_AccumulatorBound == Waiting => Len(buffer) < BlockSize

\* bytes are held back although a body is being read
C25_Witness ==
    /\ Waiting
    /\ currentFile # <<>>
    /\ Len(buffer) > 0
    /\ pos < archive.len

\* the bytes an entry, or a zero block, takes in the stream
EntrySpan(e) ==
    IF e.name = <<>> THEN BlockSize
    ELSE BlockSize + e.size + RequiredPadding(e.size)

RECURSIVE HeaderOffset(_, _)
HeaderOffset(entries, k) ==
    IF k = 1 THEN 0 ELSE HeaderOffset(entries, k - 1) + EntrySpan(entries[k - 1])

\* the entry is a regular file with a body
ShouldOpen(e) == e.name # <<>> /\ e.typeFlag \in {0, AsciiZero} /\ e.size > 0

\* the positions of `events` at which the header of entry k was parsed
ParsedAt(k) ==
    {i \in EventsOfKind("header") : events[i].at = HeaderOffset(archive.entries, k)}

\* the archive is complete, so that every entry starts at its header offset
CompleteArchive == archive \in WellFormedArchives \cup MixedArchives

\* C26: a header with a name opens an output at join(dest, name) and makes the
\* entry current with remainingBytes = size exactly when its type flag is NUL
\* or '0' and its size is > 0; otherwise nothing is opened, no file is
\* created, and the next block parsed is the one 512 bytes further on.
C26_HeaderTransition ==
    CompleteArchive =>
        \A k \in 1..Len(archive.entries) : \A i \in ParsedAt(k) :
            LET e == archive.entries[k]
            IN  (e.name # <<>> /\ events[i].at + BlockSize <= pos) =>
                IF ShouldOpen(e)
                THEN /\ i + 1 \in EventsOfKind("open")
                     /\ events[i + 1].name = e.name
                     /\ events[i + 1].size = e.size
                     /\ (Waiting => Join(resolvedOutputDir, e.name) \in DOMAIN files)
                ELSE /\ i + 1 \in DOMAIN events =>
                            /\ events[i + 1].kind = "header"
                            /\ events[i + 1].at = events[i].at + BlockSize
                     /\ Join(resolvedOutputDir, e.name) \notin DOMAIN files

\* a directory was passed over and the file after it was extracted
C26_Witness ==
    /\ archive \in MixedArchives
    /\ archive.entries[1].typeFlag = DirectoryFlag
    /\ Quiescent
    /\ ~overlapped
    /\ DOMAIN files = {Join(resolvedOutputDir, archive.entries[2].name)}

\* one file per regular entry with a body, holding the entry's body
ExpectedOutput(entries) ==
    LET opened == {k \in 1..Len(entries) : ShouldOpen(entries[k])}
    IN  [p \in {Join(resolvedOutputDir, entries[k].name) : k \in opened} |->
            LET k == CHOOSE j \in opened : Join(resolvedOutputDir, entries[j].name) = p
            IN  Body(k, entries[k].size)]

\* the archive has a zero block before an entry
HasZeroBlock == \E k \in 1..Len(archive.entries) : archive.entries[k].name = <<>>

\* C27: a block whose name field is all zero is passed over, 512 bytes, with
\* no file opened and no error; the entries after it are still extracted.
C27_ZeroBlockSkipped ==
    (archive \in MixedArchives /\ HasZeroBlock) =>
        /\ promise # "rejected"
        /\ \A k \in 1..Len(archive.entries) : \A i \in ParsedAt(k) :
              (archive.entries[k].name = <<>> /\ i + 1 \in DOMAIN events) =>
                  /\ events[i + 1].kind = "header"
                  /\ events[i + 1].at = events[i].at + BlockSize
        /\ (chunking = "whole" /\ Quiescent) => FileData = ExpectedOutput(archive.entries)

\* the entry after two zero blocks was extracted
C27_Witness ==
    /\ archive \in MixedArchives
    /\ Len(archive.entries) = 4
    /\ chunking = "whole"
    /\ Quiescent
    /\ Cardinality(DOMAIN files) = 2

\* the offsets of the header blocks and zero blocks of the archive
HeaderOrZeroOffsets ==
    {HeaderOffset(archive.entries, k) : k \in 1..Len(archive.entries)}
    \cup {HeaderOffset(archive.entries, Len(archive.entries) + 1) + n : n \in {0, BlockSize}}

\* C28: of an archive delivered as one chunk the decoder parses as headers
\* only the archive's header blocks and zero blocks, also when an entry of
\* another type has a body: its body blocks are skipped.
C28_HeaderAlignment ==
    (CompleteArchive /\ chunking = "whole") =>
        \A i \in EventsOfKind("header") : events[i].at \in HeaderOrZeroOffsets

C29_FailureRejects ==
    (~overlapped /\ failure \in {<<"mkdir">>, <<"stream">>}) => promise = "rejected"

C29_NothingAfterFailure ==
    failure \in {<<"mkdir">>, <<"stream">>} => (events' = events /\ files' = files)

\* C29: when the mkdir for an entry, or opening or writing its output, fails,
\* extractTarGz rejects; after that no header is parsed, no output is opened
\* and nothing is written, and the files written before stay as they are.
C29_IOFailureAborts == [](C29_FailureRejects) /\ [][C29_NothingAfterFailure]_vars

\* C30: when the read or the decompression fails while a file is current,
\* extractTarGz rejects and the current file's stream is closed.
C30_UpstreamFailureClosesOutput ==
    (~overlapped /\ UpstreamFailed) =>
        /\ promise = "rejected"
        /\ OpenFiles = {}

\* C31: the block loop of processChunk terminates for every chunk: no
\* invocation reaches an iteration that leaves the accumulator and the
\* current file unchanged without leaving the loop.
C31_LoopTerminates == ~spinning

\* the positions of `events` at which an output was opened, in order
OpenPositions == EventsOfKind("open")

\* the "open" event of the file at path p
OpenEventOf(p) ==
    {i \in OpenPositions : Join(resolvedOutputDir, events[i].name) = p}

\* the bytes written so far to the output of the current file
WrittenToCurrent ==
    IF currentFile[1].stream = <<>> THEN 0
    ELSE Len(files[currentFile[1].stream[1]].data)

\* the size the header of the current file declared
CurrentDeclared == events[CHOOSE i \in OpenPositions : \A j \in OpenPositions : j <= i].size

\* the "open" events whose body has been completed: the n-th "complete"
\* event belongs to the n-th "open" event
CompletedOpens ==
    {i \in OpenPositions :
        Cardinality({j \in OpenPositions : j <= i})
            <= Cardinality(EventsOfKind("complete"))}

\* C32: while a file is current, 0 < remainingBytes <= declared size and
\* written + remainingBytes = declared size; no output ever holds more bytes
\* than its header declared, and an entry is completed only with exactly the
\* declared number of bytes written.
C32_BodyAccounting ==
    /\ currentFile # <<>> =>
          /\ OpenPositions # {}
          /\ 0 < currentFile[1].size
          /\ currentFile[1].size <= CurrentDeclared
          /\ WrittenToCurrent + currentFile[1].size = CurrentDeclared
    /\ \A p \in DOMAIN files : \A i \in OpenEventOf(p) :
          /\ Len(files[p].data) <= events[i].size
          /\ i \in CompletedOpens =>
                (Len(files[p].data) = events[i].size /\ ~files[p].open)

\* a body that arrived in parts: some of it is written, the rest is due
C32_Witness ==
    /\ currentFile # <<>>
    /\ currentFile[1].stream # <<>>
    /\ WrittenToCurrent > 0
    /\ currentFile[1].size > 0
    /\ CompletedOpens # {}


-----------------------------------------------------------------------------
(* platform.ts: matchAssetName and findBestAsset.  Text is a sequence of   *)
(* one-character strings.  A JavaScript value that may be undefined or may *)
(* be an exception is one of "true", "false", "undefined", "TypeError".    *)

UpperToLower ==
    ("A" :> "a") @@ ("B" :> "b") @@ ("C" :> "c") @@ ("D" :> "d") @@ ("E" :> "e")
    @@ ("F" :> "f") @@ ("G" :> "g") @@ ("H" :> "h") @@ ("I" :> "i") @@ ("J" :> "j")
    @@ ("K" :> "k") @@ ("L" :> "l") @@ ("M" :> "m") @@ ("N" :> "n") @@ ("O" :> "o")
    @@ ("P" :> "p") @@ ("Q" :> "q") @@ ("R" :> "r") @@ ("S" :> "s") @@ ("T" :> "t")
    @@ ("U" :> "u") @@ ("V" :> "v") @@ ("W" :> "w") @@ ("X" :> "x") @@ ("Y" :> "y")
    @@ ("Z" :> "z")

\* String.prototype.toLowerCase (ASCII letters)
ToLowerCase(str) ==
    [i \in 1..Len(str) |->
        IF str[i] \in DOMAIN UpperToLower THEN UpperToLower[str[i]] ELSE str[i]]

\* String.prototype.includes
Includes(str, pattern) ==
    \E i \in 0..(Len(str) - Len(pattern)) :
        SubSeq(str, i + 1, i + Len(pattern)) = pattern

\* String.prototype.endsWith
EndsWith(str, suffix) ==
    /\ Len(str) >= Len(suffix)
    /\ SubSeq(str, Len(str) - Len(suffix) + 1, Len(str)) = suffix

\* const platformPatterns = { darwin: [...], linux: [...], win32: [...] }
platformPatterns ==
    [darwin |-> <<
        <<"a", "p", "p", "l", "e", "-", "d", "a", "r", "w", "i", "n">>,  \* 'apple-darwin'
        <<"m", "a", "c", "o", "s">>,  \* 'macos'
        <<"d", "a", "r", "w", "i", "n">>,  \* 'darwin'
        <<"a", "p", "p", "l", "e">>   \* 'apple'
     >>,
     linux |-> <<
        <<"l", "i", "n", "u", "x", "-", "g", "n", "u">>,  \* 'linux-gnu'
        <<"l", "i", "n", "u", "x">>,  \* 'linux'
        <<"u", "n", "k", "n", "o", "w", "n", "-", "l", "i", "n", "u", "x">>   \* 'unknown-linux'
     >>,
     win32 |-> <<
        <<"w", "i", "n", "d", "o", "w", "s", "-", "m", "s", "v", "c">>,  \* 'windows-msvc'
        <<"w", "i", "n", "d", "o", "w", "s">>,  \* 'windows'
        <<"w", "i", "n", "6", "4">>,  \* 'win64'
        <<"w", "i", "n", "3", "2">>,  \* 'win32'
        <<"p", "c", "-", "w", "i", "n", "d", "o", "w", "s">>   \* 'pc-windows'
     >>]

\* the table with only 'armv7' for arm: an arm64 name is no arm name
archPatterns_ArmV7Only ==
    [x64 |-> <<
        <<"x", "8", "6", "_", "6", "4">>,
        <<"x", "6", "4">>,
        <<"a", "m", "d", "6", "4">>
     >>,
     arm64 |-> <<
        <<"a", "a", "r", "c", "h", "6", "4">>,
        <<"a", "r", "m", "6", "4">>
     >>,
     arm |-> <<
        <<"a", "r", "m", "v", "7">>
     >>]

\* const archPatterns = { x64: [...], arm64: [...], arm: [...] }
archPatterns ==
    [x64 |-> <<
        <<"x", "8", "6", "_", "6", "4">>,  \* 'x86_64'
        <<"x", "6", "4">>,  \* 'x64'
        <<"a", "m", "d", "6", "4">>   \* 'amd64'
     >>,
     arm64 |-> <<
        <<"a", "a", "r", "c", "h", "6", "4">>,  \* 'aarch64'
        <<"a", "r", "m", "6", "4">>   \* 'arm64'
     >>,
     arm |-> <<
        <<"a", "r", "m", "v", "7">>,  \* 'armv7'
        <<"a", "r", "m">>   \* 'arm'
     >>]

\* table[key]?.some((pattern) => name.includes(pattern)) without the `?.`:
\* calling .some on undefined throws
OptionalSome_NoChaining(table, key, name) ==
    IF key \notin DOMAIN table THEN "TypeError"
    ELSE IF \E i \in 1..Len(table[key]) : Includes(name, table[key][i])
    THEN "true" ELSE "false"

\* table[key]?.some((pattern) => name.includes(pattern))
OptionalSome(table, key, name) ==
    IF key \notin DOMAIN table THEN "undefined"
    ELSE IF \E i \in 1..Len(table[key]) : Includes(name, table[key][i])
    THEN "true" ELSE "false"

\* a && b
JsAnd(a, b) == IF a = "true" THEN b ELSE a

\* assetName.toLowerCase() without the lower-casing
MatchName_CaseSensitive(assetName) == assetName

\* const name = assetName.toLowerCase()
MatchName(assetName) == ToLowerCase(assetName)

\* export function matchAssetName(assetName, platformInfo): "true", "false",
\* or "TypeError" when the evaluation throws
matchAssetName(assetName, platformInfo) ==
    LET name          == MatchName(assetName)
        platformMatch == OptionalSome(platformPatterns, platformInfo.platform, name)
        archMatch     == IF platformMatch = "TypeError" THEN "TypeError"
                         ELSE OptionalSome(archPatterns, platformInfo.arch, name)
    IN  IF "TypeError" \in {platformMatch, archMatch} THEN "TypeError"
        ELSE IF JsAnd(platformMatch, archMatch) = "true" THEN "true" ELSE "false"

\* '.tar.gz'
TarGzSuffix == <<".", "t", "a", "r", ".", "g", "z">>

\* the first element of matches ending in '.tar.gz': matches.find(...)
FindTarGz(matches) ==
    LET hits == {i \in 1..Len(matches) : EndsWith(matches[i], TarGzSuffix)}
    IN  IF hits = {} THEN <<>>
        ELSE <<matches[CHOOSE i \in hits : \A j \in hits : i <= j]>>

\* findBestAsset without the preference for '.tar.gz'
PreferTarGz_Never(matches, platformInfo) == <<>>

\* findBestAsset with the preference for '.tar.gz' on every platform
PreferTarGz_AlsoOnWindows(matches, platformInfo) == FindTarGz(matches)

\* if (platformInfo.platform !== 'win32') { const tarGz = matches.find(...) }
PreferTarGz(matches, platformInfo) ==
    IF platformInfo.platform # "win32" THEN FindTarGz(matches) ELSE <<>>

\* `if (matches.length === 0) return null`, but falling back to the first asset
NoMatchResult_FirstAsset(assets) == IF assets = <<>> THEN <<>> ELSE <<assets[1]>>

\* if (matches.length === 0) return null
NoMatchResult(assets) == <<>>

\* export function findBestAsset(assets, platformInfo): [threw, value], value
\* <<>> for null and <<name>> for a name
findBestAsset(assets, platformInfo) ==
    IF \E i \in 1..Len(assets) : matchAssetName(assets[i], platformInfo) = "TypeError"
    THEN [threw |-> TRUE, value |-> <<>>]
    ELSE LET matches == SelectSeq(assets,
                            LAMBDA a : matchAssetName(a, platformInfo) = "true")
             tarGz   == PreferTarGz(matches, platformInfo)
         IN  [threw |-> FALSE,
              value |-> IF Len(matches) = 0 THEN NoMatchResult(assets)
                        ELSE IF Len(matches) = 1 THEN <<matches[1]>>
                        ELSE IF tarGz # <<>> THEN tarGz
                        ELSE <<matches[1]>>]

-----------------------------------------------------------------------------
(* The inputs of the matcher *)

\* at most this many assetList in a release
MaxAssets == 3

AssetNames == {
    <<"a", "-", "x", "8", "6", "_", "6", "4", "-", "a", "p", "p", "l", "e", "-", "d", "a", "r", "w", "i", "n", ".", "z", "i", "p">>,  \* 'a-x86_64-apple-darwin.zip'
    <<"a", "-", "x", "8", "6", "_", "6", "4", "-", "a", "p", "p", "l", "e", "-", "d", "a", "r", "w", "i", "n", ".", "t", "a", "r", ".", "g", "z">>,  \* 'a-x86_64-apple-darwin.tar.gz'
    <<"A", "-", "A", "M", "D", "6", "4", "-", "M", "a", "c", "O", "S", ".", "t", "g", "z">>,  \* 'A-AMD64-MacOS.tgz'
    <<"a", "-", "x", "6", "4", "-", "w", "i", "n", "d", "o", "w", "s", ".", "z", "i", "p">>,  \* 'a-x64-windows.zip'
    <<"a", "-", "x", "8", "6", "_", "6", "4", "-", "p", "c", "-", "w", "i", "n", "d", "o", "w", "s", "-", "m", "s", "v", "c", ".", "t", "a", "r", ".", "g", "z">>,  \* 'a-x86_64-pc-windows-msvc.tar.gz'
    <<"a", "-", "l", "i", "n", "u", "x", ".", "t", "a", "r", ".", "g", "z">>,  \* 'a-linux.tar.gz'
    <<"a", "-", "x", "8", "6", "_", "6", "4", ".", "z", "i", "p">>,  \* 'a-x86_64.zip'
    <<"a", "-", "a", "r", "m", "6", "4", "-", "l", "i", "n", "u", "x", ".", "t", "a", "r", ".", "g", "z">>,  \* 'a-arm64-linux.tar.gz'
    <<"a", "-", "a", "r", "m", "v", "7", "-", "l", "i", "n", "u", "x", ".", "t", "a", "r", ".", "g", "z">>,  \* 'a-armv7-linux.tar.gz'
    <<"A", "-", "A", "R", "M", "6", "4", "-", "D", "a", "r", "w", "i", "n", ".", "z", "i", "p">>,  \* 'A-ARM64-Darwin.zip'
    <<"a", "-", "a", "r", "m", "6", "4", "-", "w", "i", "n", "d", "o", "w", "s", ".", "z", "i", "p">>   \* 'a-arm64-windows.zip'
    }

AssetLists == UNION {[1..n -> AssetNames] : n \in 0..MaxAssets}

\* os.platform() and os.arch() values with an entry in the pattern tables
KnownPlatforms == {"darwin", "linux", "win32"}

KnownArchs == {"x64", "arm64", "arm"}

\* the descriptors getPlatformInfo() can return: those of the tables, and
\* some without an entry
PlatformInfos ==
    {[platform |-> p, arch |-> a] : p \in KnownPlatforms, a \in KnownArchs}
    \cup {[platform |-> "freebsd", arch |-> "x64"],
          [platform |-> "linux", arch |-> "ia32"]}


-----------------------------------------------------------------------------
(* Calls of the matcher *)

\* the decoder, not in use
TarIdle ==
    /\ archive = EmptyStream
    /\ chunking = "whole"
    /\ pos = 0
    /\ buffer = <<>>
    /\ currentFile = <<>>
    /\ awaiting = <<>>
    /\ files = NoFiles
    /\ promise = "pending"
    /\ gunzipEnded = FALSE
    /\ spinning = FALSE
    /\ overlapped = FALSE
    /\ failure = <<>>
    /\ events = <<>>

\* matchAssetName(assetName, platformInfo) on an asset of the list
CallMatchAssetName ==
    /\ matched = <<>>
    /\ best = <<>>
    /\ \E i \in 1..Len(assetList) :
        matched' = <<[assetName |-> assetList[i],
                      result    |-> matchAssetName(assetList[i], descriptor)]>>
    /\ UNCHANGED <<assetList, descriptor, best>>
    /\ UNCHANGED <<tarVars, installVars, zipVars, headerVars>>

\* findBestAsset(assets, platformInfo)
CallFindBestAsset ==
    /\ matched = <<>>
    /\ best = <<>>
    /\ best' = <<findBestAsset(assetList, descriptor)>>
    /\ UNCHANGED <<assetList, descriptor, matched>>
    /\ UNCHANGED <<tarVars, installVars, zipVars, headerVars>>

MatchInit ==
    /\ assetList \in AssetLists
    /\ descriptor \in PlatformInfos
    /\ matched = <<>>
    /\ best = <<>>
    /\ TarIdle
    /\ InstallIdle
    /\ ZipIdle
    /\ HeaderIdle

MatchNext == CallMatchAssetName \/ CallFindBestAsset

SpecMatch == MatchInit /\ [][MatchNext]_vars

-----------------------------------------------------------------------------
(* Calls of parseTarHeader on single header blocks *)

\* the bytes a name starts with: NUL, 'a', '/'
NameBytes == {0, 97, 47}

\* name fields: three bytes and zeros after them (all zeros included), one
\* without any NUL, and one whose only NUL is its last byte
NameFields ==
    {<<b1, b2, b3>> \o Zeros(NameFieldLen - 3) : b1 \in NameBytes, b2 \in NameBytes, b3 \in NameBytes}
    \cup {[i \in 1..NameFieldLen |-> 97],
          [i \in 1..NameFieldLen |-> IF i = NameFieldLen THEN 0 ELSE 97]}

\* header blocks built as the tests build them, around each name field
HeaderBlocks ==
    {TarHeaderBlock(field, size, typeFlag) :
        field \in NameFields, size \in {0, 13}, typeFlag \in {AsciiZero, DirectoryFlag}}

\* const header = parseTarHeader(buffer.subarray(0, 512))
CallParseTarHeader ==
    /\ headerBlock # <<>>
    /\ parsedHeader = <<>>
    /\ parsedHeader' = <<parseTarHeader(headerBlock)>>
    /\ UNCHANGED headerBlock
    /\ UNCHANGED <<tarVars, matchVars, installVars, zipVars>>

HeaderInit ==
    /\ headerBlock \in HeaderBlocks
    /\ parsedHeader = <<>>
    /\ TarIdle
    /\ MatchIdle
    /\ InstallIdle
    /\ ZipIdle

HeaderNext == CallParseTarHeader

SpecHeader == HeaderInit /\ [][HeaderNext]_vars

\* the name field of the block
NameField == Take(headerBlock, NameFieldLen)

HasNul(s) == \E i \in 1..Len(s) : s[i] = 0

\* the bytes of s before its first NUL, all of s when it has none
BeforeFirstNul(s) ==
    IF HasNul(s)
    THEN Take(s, (CHOOSE i \in 1..Len(s) : s[i] = 0 /\ \A j \in 1..(i - 1) : s[j] # 0) - 1)
    ELSE s

\* C33: for a header block whose name field is not all zero, the parsed name
\* is the name field up to its first NUL, or the whole field when it has no
\* NUL; the parsed name holds no NUL when the field holds one.
C33_HeaderName ==
    (parsedHeader # <<>> /\ NameField # Zeros(NameFieldLen)) =>
        /\ parsedHeader[1] # <<>>
        /\ parsedHeader[1][1].name = BeforeFirstNul(NameField)
        /\ HasNul(NameField) => ~HasNul(parsedHeader[1][1].name)

-----------------------------------------------------------------------------
(* Properties of the matcher *)

\* the pattern sets of the specification's tables, by OS family
OsPatternSet(os) ==
    CASE os = "darwin" -> {
            <<"a", "p", "p", "l", "e", "-", "d", "a", "r", "w", "i", "n">>,  \* apple-darwin
            <<"m", "a", "c", "o", "s">>,  \* macos
            <<"d", "a", "r", "w", "i", "n">>,  \* darwin
            <<"a", "p", "p", "l", "e">>   \* apple
            }
      [] os = "linux" -> {
            <<"l", "i", "n", "u", "x", "-", "g", "n", "u">>,  \* linux-gnu
            <<"l", "i", "n", "u", "x">>,  \* linux
            <<"u", "n", "k", "n", "o", "w", "n", "-", "l", "i", "n", "u", "x">>   \* unknown-linux
            }
      [] os = "win32" -> {
            <<"w", "i", "n", "d", "o", "w", "s", "-", "m", "s", "v", "c">>,  \* windows-msvc
            <<"w", "i", "n", "d", "o", "w", "s">>,  \* windows
            <<"w", "i", "n", "6", "4">>,  \* win64
            <<"w", "i", "n", "3", "2">>,  \* win32
            <<"p", "c", "-", "w", "i", "n", "d", "o", "w", "s">>   \* pc-windows
            }
      [] OTHER -> {}

\* the pattern sets of the specification's tables, by architecture
ArchPatternSet(arch) ==
    CASE arch = "x64" -> {
            <<"x", "8", "6", "_", "6", "4">>,  \* x86_64
            <<"x", "6", "4">>,  \* x64
            <<"a", "m", "d", "6", "4">>   \* amd64
            }
      [] arch = "arm64" -> {
            <<"a", "a", "r", "c", "h", "6", "4">>,  \* aarch64
            <<"a", "r", "m", "6", "4">>   \* arm64
            }
      [] arch = "arm" -> {
            <<"a", "r", "m", "v", "7">>,  \* armv7
            <<"a", "r", "m">>   \* arm
            }
      [] OTHER -> {}

ContainsOsPattern(F, P) ==
    \E pat \in OsPatternSet(P.platform) : Includes(ToLowerCase(F), pat)

ContainsArchPattern(F, P) ==
    \E pat \in ArchPatternSet(P.arch) : Includes(ToLowerCase(F), pat)

KnownPlatform == descriptor.platform \in KnownPlatforms /\ descriptor.arch \in KnownArchs

\* C4: for a descriptor of {darwin, linux, win32} x {x64, arm64, arm},
\* matchAssetName(F, P) is true exactly when lower-cased F contains a string
\* of P's OS pattern set and a string of P's architecture pattern set.
C4_MatchIffOsAndArch ==
    (KnownPlatform /\ matched # <<>>) =>
        /\ matched[1].result \in {"true", "false"}
        /\ (matched[1].result = "true") <=>
              (/\ ContainsOsPattern(matched[1].assetName, descriptor)
               /\ ContainsArchPattern(matched[1].assetName, descriptor))

\* an asset that satisfies the OS table only is rejected
C4_Witness ==
    /\ KnownPlatform
    /\ matched # <<>>
    /\ matched[1].result = "false"
    /\ ContainsOsPattern(matched[1].assetName, descriptor)
    /\ ~ContainsArchPattern(matched[1].assetName, descriptor)

\* the positions of the assetList that match, and of those that also end in .tar.gz
MatchingPositions ==
    {i \in 1..Len(assetList) : matchAssetName(assetList[i], descriptor) = "true"}

TarGzPositions ==
    {i \in MatchingPositions : EndsWith(assetList[i], TarGzSuffix)}

First(S) == CHOOSE i \in S : \A j \in S : i <= j

\* C5: on a platform other than win32, with two or more matches of which at
\* least one ends in ".tar.gz", findBestAsset returns the first match that
\* ends in ".tar.gz".
C5_PrefersTarGz ==
    (/\ best # <<>>
     /\ descriptor.platform # "win32"
     /\ Cardinality(MatchingPositions) >= 2
     /\ TarGzPositions # {}) =>
        /\ ~best[1].threw
        /\ best[1].value = <<assetList[First(TarGzPositions)]>>

\* a .tar.gz match is returned although another match comes first
C5_Witness ==
    /\ best # <<>>
    /\ descriptor.platform # "win32"
    /\ Cardinality(MatchingPositions) >= 2
    /\ TarGzPositions # {}
    /\ First(TarGzPositions) > First(MatchingPositions)
    /\ best[1].value = <<assetList[First(TarGzPositions)]>>

\* C6: on win32, and on any platform with exactly one match or with no match
\* ending in ".tar.gz", findBestAsset returns the first match in input order.
C6_FirstMatch ==
    (/\ best # <<>>
     /\ MatchingPositions # {}
     /\ \/ descriptor.platform = "win32"
        \/ Cardinality(MatchingPositions) = 1
        \/ TarGzPositions = {}) =>
        /\ ~best[1].threw
        /\ best[1].value = <<assetList[First(MatchingPositions)]>>

\* on win32 the first match wins over a later .tar.gz match, with an asset
\* that does not match in front of it
C6_Witness ==
    /\ best # <<>>
    /\ descriptor.platform = "win32"
    /\ Cardinality(MatchingPositions) >= 2
    /\ First(MatchingPositions) > 1
    /\ TarGzPositions # {}
    /\ First(MatchingPositions) \notin TarGzPositions
    /\ best[1].value = <<assetList[First(MatchingPositions)]>>

\* C7: findBestAsset returns null when the list is empty and whenever no
\* asset of the list matches.
C7_NullWhenNoMatch ==
    (best # <<>> /\ MatchingPositions = {}) =>
        /\ ~best[1].threw
        /\ best[1].value = <<>>

\* a list that is not empty and has no match
C7_Witness ==
    /\ best # <<>>
    /\ Len(assetList) = MaxAssets
    /\ KnownPlatform
    /\ MatchingPositions = {}
    /\ best[1].value = <<>>

\* C8: the matcher never throws; for an OS or an architecture without an
\* entry in the pattern tables matchAssetName returns false and findBestAsset
\* returns null.
C8_NeverThrows ==
    /\ matched # <<>> =>
          /\ matched[1].result \in {"true", "false"}
          /\ ~KnownPlatform => matched[1].result = "false"
    /\ best # <<>> =>
          /\ ~best[1].threw
          /\ ~KnownPlatform => best[1].value = <<>>

\* a platform without a table entry, and an asset that names the architecture
C8_Witness ==
    /\ descriptor.platform = "freebsd"
    /\ best # <<>>
    /\ Len(assetList) > 0
    /\ \A i \in 1..Len(assetList) : ContainsArchPattern(assetList[i], descriptor)
    /\ best[1].value = <<>>


\* 'arm64'
Arm64Token == <<"a", "r", "m", "6", "4">>

\* F names the OS of the descriptor and contains "arm64"
Arm64AssetFor(F, P) ==
    /\ P.platform \in KnownPlatforms
    /\ ContainsOsPattern(F, P)
    /\ Includes(ToLowerCase(F), Arm64Token)

\* C34: on an arm descriptor, a name that matches the OS and contains
\* "arm64" matches; findBestAsset returns such an asset when it is the first
\* of the list (and ends in .tar.gz, or the platform is win32), whatever
\* follows it, an armv7 asset included.
C34_Arm64MatchesArm ==
    /\ (/\ matched # <<>>
        /\ descriptor.arch = "arm"
        /\ Arm64AssetFor(matched[1].assetName, descriptor)) =>
            matched[1].result = "true"
    /\ (/\ best # <<>>
        /\ descriptor.arch = "arm"
        /\ assetList # <<>>
        /\ Arm64AssetFor(assetList[1], descriptor)
        /\ (descriptor.platform = "win32" \/ EndsWith(assetList[1], TarGzSuffix))) =>
            best[1].value = <<assetList[1]>>

\* 'armv7'
ArmV7Token == <<"a", "r", "m", "v", "7">>

\* on linux/arm the arm64 asset is returned although an armv7 asset follows
C34_Witness ==
    /\ best # <<>>
    /\ descriptor = [platform |-> "linux", arch |-> "arm"]
    /\ Len(assetList) >= 2
    /\ Arm64AssetFor(assetList[1], descriptor)
    /\ Includes(assetList[2], ArmV7Token)
    /\ best[1].value = <<assetList[1]>>

\* C35: a value findBestAsset returns, if not null, is an element of the
\* asset list and matches the platform.
C35_SelectionSound ==
    (best # <<>> /\ best[1].value # <<>>) =>
        /\ \E i \in 1..Len(assetList) : assetList[i] = best[1].value[1]
        /\ matchAssetName(best[1].value[1], descriptor) = "true"

\* the returned asset is the last of a full list, after assets that do not match
C35_Witness ==
    /\ best # <<>>
    /\ Len(assetList) = MaxAssets
    /\ best[1].value = <<assetList[MaxAssets]>>
    /\ \A i \in 1..(MaxAssets - 1) : assetList[i] # assetList[MaxAssets]
    /\ MatchingPositions = {MaxAssets}

-----------------------------------------------------------------------------
(* index.ts: installRelease.  The output directory is a set of file paths  *)
(* relative to it; a directory exists when a file lies below it.           *)

\* Array.lastIndexOf, 1-based, 0 if none
LastIndexOf(str, c) ==
    IF \E i \in 1..Len(str) : str[i] = c
    THEN CHOOSE i \in 1..Len(str) : str[i] = c /\ \A j \in (i + 1)..Len(str) : str[j] # c
    ELSE 0

\* path.basename
Basename(path) == Drop(path, LastIndexOf(path, "/"))

\* path.extname, applied to a file name
Extname(fileName) ==
    LET dot == LastIndexOf(fileName, ".")
    IN  IF dot <= 1 THEN <<>> ELSE Drop(fileName, dot - 1)

\* String.prototype.replace(pattern, replacement) with a string pattern: the
\* first occurrence only
ReplaceFirst(str, pattern, replacement) ==
    LET hits == {i \in 0..(Len(str) - Len(pattern)) :
                    SubSeq(str, i + 1, i + Len(pattern)) = pattern}
    IN  IF hits = {} THEN str
        ELSE LET i == CHOOSE h \in hits : \A k \in hits : h <= k
             IN  Take(str, i) \o replacement \o Drop(str, i + Len(pattern))

\* the version argument: 'v1'
version == <<"v", "1">>

\* repo.split('/')[1] for the repo argument 'o/tool'
repoName == <<"t", "o", "o", "l">>

\* '{version}'
VersionPlaceholder == <<"{", "v", "e", "r", "s", "i", "o", "n", "}">>

ExeSuffix == <<".", "e", "x", "e">>

BinSuffix == <<".", "b", "i", "n">>

TgzSuffix == <<".", "t", "g", "z">>

ZipSuffix == <<".", "z", "i", "p">>

\* ['.txt', '.md', '.json', '.xml', '.html', '.log']
SuspiciousExtensions == {
    <<".", "t", "x", "t">>,
    <<".", "m", "d">>,
    <<".", "j", "s", "o", "n">>,
    <<".", "x", "m", "l">>,
    <<".", "h", "t", "m", "l">>,
    <<".", "l", "o", "g">>
    }

\* const finalBinName = binName || repo.split('/')[1]
FinalBinName(o) ==
    IF o.binName # <<>> /\ o.binName[1] # <<>> THEN o.binName[1] ELSE repoName

\* [finalBinName, `${finalBinName}.exe`, `${finalBinName}.bin`]
PotentialBinaryNames(o) ==
    <<FinalBinName(o), FinalBinName(o) \o ExeSuffix, FinalBinName(o) \o BinSuffix>>

\* fs.access(path) succeeds: a file, or a directory above a file
Exists(fs, path) ==
    \/ path \in fs
    \/ \E f \in fs : Len(f) > Len(path) /\ Take(f, Len(path) + 1) = path \o <<"/">>

\* (await stat(path)).isFile()
IsFile(fs, path) == path \in fs

\* const tempPath = join(outputPath, basename(selectedReleaseAssetName))
TempPath == Basename(selected[1])

\* the suffixes extractArchive accepts
SupportedArchive(path) ==
    \/ EndsWith(path, TarGzSuffix)
    \/ EndsWith(path, TgzSuffix)
    \/ EndsWith(path, ZipSuffix)

\* the direct paths of the binary search: the first name that is a file
DirectHits(fs, o) ==
    {i \in 1..3 : IsFile(fs, PotentialBinaryNames(o)[i])}

\* the files the recursive search accepts
RecursiveHits(fs, o) ==
    {f \in fs :
        LET fileName            == Basename(f)
            fileExtension       == Extname(fileName)
            isExactMatch        == fileName = FinalBinName(o)
            isExecutableWithExt == \/ fileName = FinalBinName(o) \o ExeSuffix
                                   \/ fileName = FinalBinName(o) \o BinSuffix
            hasSuspiciousExt    == fileExtension \in SuspiciousExtensions
        IN  (isExactMatch \/ isExecutableWithExt) /\ ~hasSuspiciousExt}

\* ---- the steps of installRelease ----

\* installRelease rejects with `e` outside the try block
Reject(e) ==
    /\ outcome' = e
    /\ ipc' = "settled"

\* response.ok
ResponseOk(status) == status >= 200 /\ status <= 299

\* fetchReleaseInfo without the `if (!response.ok)` block: the body of any
\* response is taken for the release
FetchReleaseInfo_NoOkCheck ==
    /\ ipc = "start"
    /\ \E status \in {200, 403, 404, 500} :
        /\ httpStatus' = <<status>>
        /\ release' = <<assetList>>
        /\ ipc' = "fetched"
        /\ UNCHANGED outcome
    /\ UNCHANGED <<opts, selected, outDir, downloads, extractionSuccessful,
                   binaryFound, executables, thrown, unlinked>>
    /\ UNCHANGED <<tarVars, matchVars, zipVars, headerVars, listedAssets, outDir0>>

\* const releaseInfo = await fetchReleaseInfo(repo, version)
FetchReleaseInfo ==
    /\ ipc = "start"
    /\ \E status \in {200, 403, 404, 500} :
        /\ httpStatus' = <<status>>
        /\ IF ResponseOk(status)
           THEN /\ release' = <<assetList>>
                /\ ipc' = "fetched"
                /\ UNCHANGED outcome
           ELSE /\ Reject(IF status = 404 THEN "ReleaseNotFound" ELSE "FetchFailed")
                /\ UNCHANGED release
    /\ UNCHANGED <<opts, selected, outDir, downloads, extractionSuccessful,
                   binaryFound, executables, thrown, unlinked>>
    /\ UNCHANGED <<tarVars, matchVars, zipVars, headerVars, listedAssets, outDir0>>

\* the selection that uses the platformMap entry only when automatic
\* detection finds nothing
SelectedName_AutoFirst ==
    LET auto == findBestAsset(release[1], descriptor)
    IN  IF (auto.threw \/ auto.value = <<>>) /\ opts.mapped # <<>> /\ opts.mapped[1] # <<>>
        THEN [threw |-> FALSE,
              value |-> <<ReplaceFirst(opts.mapped[1], VersionPlaceholder, version)>>]
        ELSE auto

\* the asset name lines 43-52 select: <<>> is null
SelectedName ==
    IF opts.mapped # <<>> /\ opts.mapped[1] # <<>>
    THEN [threw |-> FALSE,
          value |-> <<ReplaceFirst(opts.mapped[1], VersionPlaceholder, version)>>]
    ELSE findBestAsset(release[1], descriptor)

\* the selection without the `if (!selectedReleaseAssetName)` block: a null
\* selection goes on to the lookup in the release
SelectAsset_NoNullCheck ==
    /\ ipc = "fetched"
    /\ LET s == SelectedName
       IN  IF s.threw
           THEN Reject("TypeError") /\ UNCHANGED <<selected, listedAssets>>
           ELSE IF s.value = <<>> \/ ~\E i \in 1..Len(release[1]) : release[1][i] = s.value[1]
           THEN Reject("AssetNotInRelease") /\ selected' = s.value
                /\ UNCHANGED listedAssets
           ELSE /\ selected' = s.value
                /\ ipc' = "selected"
                /\ UNCHANGED <<outcome, listedAssets>>
    /\ UNCHANGED <<opts, release, outDir, downloads, extractionSuccessful,
                   binaryFound, executables, thrown, unlinked>>
    /\ UNCHANGED <<tarVars, matchVars, zipVars, headerVars, httpStatus, outDir0>>

\* lines 41-64: the selection and its two errors
SelectAsset ==
    /\ ipc = "fetched"
    /\ LET s == SelectedName
       IN  IF s.threw
           THEN Reject("TypeError") /\ UNCHANGED <<selected, listedAssets>>
           ELSE IF s.value = <<>> \/ s.value[1] = <<>>
           THEN /\ listedAssets' = release[1]
                /\ Reject("NoMatchingAsset")
                /\ selected' = s.value
           ELSE IF ~\E i \in 1..Len(release[1]) : release[1][i] = s.value[1]
           THEN Reject("AssetNotInRelease") /\ selected' = s.value
                /\ UNCHANGED listedAssets
           ELSE /\ selected' = s.value
                /\ ipc' = "selected"
                /\ UNCHANGED <<outcome, listedAssets>>
    /\ UNCHANGED <<opts, release, outDir, downloads, extractionSuccessful,
                   binaryFound, executables, thrown, unlinked>>
    /\ UNCHANGED <<tarVars, matchVars, zipVars, headerVars, httpStatus, outDir0>>

\* await mkdir(outputPath, { recursive: true })
MakeOutputDir ==
    /\ ipc = "selected"
    /\ outDir' = [outDir EXCEPT !.exists = TRUE]
    /\ ipc' = "dirReady"
    /\ UNCHANGED <<opts, release, selected, downloads, extractionSuccessful,
                   binaryFound, executables, thrown, unlinked, outcome>>
    /\ UNCHANGED <<tarVars, matchVars, zipVars, headerVars, httpStatus, listedAssets, outDir0>>

\* the check that looks only for the bare name, not for `.exe` and `.bin`
ForceCheck_OnlyBareName ==
    /\ ipc = "dirReady"
    /\ IF ~opts.force /\ Exists(outDir.files, PotentialBinaryNames(opts)[1])
       THEN Reject("BinaryExists")
       ELSE ipc' = "checked" /\ UNCHANGED outcome
    /\ UNCHANGED <<opts, release, selected, outDir, downloads, extractionSuccessful,
                   binaryFound, executables, thrown, unlinked>>
    /\ UNCHANGED <<tarVars, matchVars, zipVars, headerVars, httpStatus, listedAssets, outDir0>>

\* lines 74-94: the check for an existing binary
ForceCheck ==
    /\ ipc = "dirReady"
    /\ IF ~opts.force /\ \E i \in 1..3 : Exists(outDir.files, PotentialBinaryNames(opts)[i])
       THEN Reject("BinaryExists")
       ELSE ipc' = "checked" /\ UNCHANGED outcome
    /\ UNCHANGED <<opts, release, selected, outDir, downloads, extractionSuccessful,
                   binaryFound, executables, thrown, unlinked>>
    /\ UNCHANGED <<tarVars, matchVars, zipVars, headerVars, httpStatus, listedAssets, outDir0>>

\* await downloadAsset(releaseAsset.download_url, tempPath), up to the await
\* of pipeline: the request, the two checks of the response, and
\* createWriteStream(outputPath), which creates the file
DownloadAsset ==
    /\ ipc = "checked"
    /\ downloads' = [downloads EXCEPT !.started = @ + 1]
    /\ \E response \in {"ok", "notOk", "noBody", "fetchRejected"} :
        IF response = "ok"
        THEN /\ outDir' = [outDir EXCEPT !.files = @ \cup {TempPath}]
             /\ ipc' = "piping"
             /\ UNCHANGED outcome
        ELSE /\ Reject(CASE response = "notOk"  -> "DownloadHttpError"
                         [] response = "noBody" -> "EmptyBody"
                         [] OTHER               -> "DownloadFetchRejected")
             /\ UNCHANGED outDir
    /\ UNCHANGED <<opts, release, selected, extractionSuccessful,
                   binaryFound, executables, thrown, unlinked>>
    /\ UNCHANGED <<tarVars, matchVars, zipVars, headerVars, httpStatus, listedAssets, outDir0>>

\* await pipeline(readableStream, fileStream): the file is complete, or the
\* stream fails and leaves a partial file
Pipeline ==
    /\ ipc = "piping"
    /\ \E ok \in BOOLEAN :
        IF ok
        THEN /\ downloads' = [downloads EXCEPT !.completed = @ + 1]
             /\ ipc' = "downloaded"
        ELSE /\ ipc' = "pipelineFailed"
             /\ UNCHANGED downloads
    /\ UNCHANGED <<opts, release, selected, outDir, extractionSuccessful,
                   binaryFound, executables, thrown, unlinked, outcome>>
    /\ UNCHANGED <<tarVars, matchVars, zipVars, headerVars, httpStatus, listedAssets, outDir0>>

\* the catch block without the unlink
UnlinkPartial_KeepsFile ==
    /\ ipc = "pipelineFailed"
    /\ Reject("DownloadStreamError")
    /\ UNCHANGED <<opts, release, selected, outDir, downloads, extractionSuccessful,
                   binaryFound, executables, thrown, unlinked>>
    /\ UNCHANGED <<tarVars, matchVars, zipVars, headerVars, httpStatus, listedAssets, outDir0>>

\* catch (error) { try { await unlink(outputPath) } catch {}; throw new Error(
\* `Failed to download asset: ...`) }
UnlinkPartial ==
    /\ ipc = "pipelineFailed"
    /\ outDir' = [outDir EXCEPT !.files = @ \ {TempPath}]
    /\ Reject("DownloadStreamError")
    /\ UNCHANGED <<opts, release, selected, downloads, extractionSuccessful,
                   binaryFound, executables, thrown, unlinked>>
    /\ UNCHANGED <<tarVars, matchVars, zipVars, headerVars, httpStatus, listedAssets, outDir0>>

\* the files an archive may hold
ArchiveContents == {
    <<"t", "o", "o", "l">>,
    <<"p", "k", "g", "/", "t", "o", "o", "l", ".", "e", "x", "e">>,
    <<"R", "E", "A", "D", "M", "E", ".", "m", "d">>
    }

\* await extractArchive(tempPath, outputPath); extractionSuccessful = true.
\* A failing extraction may have written some files before it failed.
ExtractArchive ==
    /\ ipc = "downloaded"
    /\ IF ~SupportedArchive(TempPath)
       THEN /\ thrown' = <<"UnsupportedFormat">>
            /\ ipc' = "finally"
            /\ UNCHANGED <<outDir, extractionSuccessful>>
       ELSE \E extracted \in SUBSET ArchiveContents, ok \in BOOLEAN :
            /\ outDir' = [outDir EXCEPT !.files = @ \cup extracted]
            /\ extractionSuccessful' = ok
            /\ thrown' = IF ok THEN <<>> ELSE <<"ExtractionFailed">>
            /\ ipc' = IF ok THEN "extracted" ELSE "finally"
    /\ UNCHANGED <<opts, release, selected, downloads, binaryFound, executables,
                   unlinked, outcome>>
    /\ UNCHANGED <<tarVars, matchVars, zipVars, headerVars, httpStatus, listedAssets, outDir0>>

\* the binary search that throws whenever nothing was found, binName or not
FindBinary_ThrowsWithoutBinName ==
    /\ ipc = "extracted"
    /\ LET direct    == DirectHits(outDir.files, opts)
           recursive == RecursiveHits(outDir.files, opts)
           found     == direct # {} \/ recursive # {}
       IN  /\ binaryFound' = found
           /\ IF direct # {}
              THEN executables' = executables \cup
                       {PotentialBinaryNames(opts)[CHOOSE i \in direct : \A j \in direct : i <= j]}
              ELSE IF recursive # {}
              THEN \E f \in recursive : executables' = executables \cup {f}
              ELSE UNCHANGED executables
           /\ thrown' = IF ~found THEN <<"BinNameNotFound">> ELSE <<>>
    /\ ipc' = "finally"
    /\ UNCHANGED <<opts, release, selected, outDir, downloads, extractionSuccessful,
                   unlinked, outcome>>
    /\ UNCHANGED <<tarVars, matchVars, zipVars, headerVars, httpStatus, listedAssets, outDir0>>

\* lines 108-175: the binary search, chmod, and the binName error
FindBinary ==
    /\ ipc = "extracted"
    /\ LET direct    == DirectHits(outDir.files, opts)
           recursive == RecursiveHits(outDir.files, opts)
           found     == direct # {} \/ recursive # {}
       IN  /\ binaryFound' = found
           /\ IF direct # {}
              THEN executables' = executables \cup
                       {PotentialBinaryNames(opts)[CHOOSE i \in direct : \A j \in direct : i <= j]}
              ELSE IF recursive # {}
              THEN \E f \in recursive : executables' = executables \cup {f}
              ELSE UNCHANGED executables
           /\ thrown' = IF opts.binName # <<>> /\ opts.binName[1] # <<>> /\ ~found
                        THEN <<"BinNameNotFound">> ELSE <<>>
    /\ ipc' = "finally"
    /\ UNCHANGED <<opts, release, selected, outDir, downloads, extractionSuccessful,
                   unlinked, outcome>>
    /\ UNCHANGED <<tarVars, matchVars, zipVars, headerVars, httpStatus, listedAssets, outDir0>>

\* the finally block that unlinks the archive only after a successful extraction
UnlinkArchive_OnlyAfterSuccess ==
    /\ ipc = "finally"
    /\ outDir' = IF extractionSuccessful
                 THEN [outDir EXCEPT !.files = @ \ {TempPath}] ELSE outDir
    /\ unlinked' = TRUE
    /\ ipc' = "unlinked"
    /\ UNCHANGED <<opts, release, selected, downloads, extractionSuccessful,
                   binaryFound, executables, thrown, outcome>>
    /\ UNCHANGED <<tarVars, matchVars, zipVars, headerVars, httpStatus, listedAssets, outDir0>>

\* finally { try { await unlink(tempPath) } catch {} }
UnlinkArchive ==
    /\ ipc = "finally"
    /\ outDir' = [outDir EXCEPT !.files = @ \ {TempPath}]
    /\ unlinked' = TRUE
    /\ ipc' = "unlinked"
    /\ UNCHANGED <<opts, release, selected, downloads, extractionSuccessful,
                   binaryFound, executables, thrown, outcome>>
    /\ UNCHANGED <<tarVars, matchVars, zipVars, headerVars, httpStatus, listedAssets, outDir0>>

\* after the finally block installRelease resolves, or rejects with the error
\* thrown in the try block
Settle ==
    /\ ipc = "unlinked"
    /\ outcome' = IF thrown = <<>> THEN "resolved" ELSE thrown[1]
    /\ ipc' = "settled"
    /\ UNCHANGED <<opts, release, selected, outDir, downloads, extractionSuccessful,
                   binaryFound, executables, thrown, unlinked>>
    /\ UNCHANGED <<tarVars, matchVars, zipVars, headerVars, httpStatus, listedAssets, outDir0>>

\* ---- the inputs of installRelease ----

\* the releases: lists of asset names
InstallReleases == {
    <<>>,
    <<<<"a", "-", "x", "8", "6", "_", "6", "4", "-", "a", "p", "p", "l", "e", "-", "d", "a", "r", "w", "i", "n", ".", "z", "i", "p">>,
      <<"a", "-", "x", "8", "6", "_", "6", "4", "-", "a", "p", "p", "l", "e", "-", "d", "a", "r", "w", "i", "n", ".", "t", "a", "r", ".", "g", "z">>>>,
    <<<<"a", "-", "x", "6", "4", "-", "w", "i", "n", "d", "o", "w", "s", ".", "z", "i", "p">>,
      <<"a", "-", "x", "8", "6", "_", "6", "4", ".", "z", "i", "p">>>>,
    <<<<"a", "-", "v", "1", "-", "a", "m", "d", "6", "4", "-", "m", "a", "c", "o", "s", ".", "p", "k", "g">>,
      <<"A", "-", "A", "M", "D", "6", "4", "-", "M", "a", "c", "O", "S", ".", "t", "g", "z">>>>
    }

\* binName: absent (<<>>) or given
BinNameOptions == {<<>>, <<<<"t", "o", "o", "l">>>>, <<<<"c", "l", "i">>>>}

\* platformMap?.[platformInfo.combined]: absent (<<>>) or a template
MappedOptions == {<<>>, <<<<>>>>, <<<<"a", "-", "x", "8", "6", "_", "6", "4", "-", "a", "p", "p", "l", "e", "-", "d", "a", "r", "w", "i", "n", ".", "z", "i", "p">>>>, <<<<"a", "-", "x", "6", "4", "-", "w", "i", "n", "d", "o", "w", "s", ".", "z", "i", "p">>>>, <<<<"a", "-", "{", "v", "e", "r", "s", "i", "o", "n", "}", "-", "a", "m", "d", "6", "4", "-", "m", "a", "c", "o", "s", ".", "p", "k", "g">>>>}

\* what the output directory holds before the call
InitialDirs == {
    [exists |-> FALSE, files |-> {}],
    [exists |-> TRUE, files |-> {<<"t", "o", "o", "l">>}],
    [exists |-> TRUE, files |-> {<<"c", "l", "i", ".", "b", "i", "n">>}],
    [exists |-> TRUE, files |-> {<<"t", "o", "o", "l", ".", "e", "x", "e", "/", "n", "o", "t", "e", "s", ".", "m", "d">>}],
    [exists |-> TRUE, files |-> {<<"n", "o", "t", "e", "s", ".", "m", "d">>}]
    }

InstallPlatforms ==
    {[platform |-> "darwin", arch |-> "x64"],
     [platform |-> "win32", arch |-> "x64"],
     [platform |-> "freebsd", arch |-> "x64"]}

InstallInit ==
    /\ ipc = "start"
    /\ assetList \in InstallReleases
    /\ descriptor \in InstallPlatforms
    /\ opts \in [binName : BinNameOptions, force : BOOLEAN, mapped : MappedOptions]
    /\ outDir \in InitialDirs
    /\ outDir0 = outDir
    /\ httpStatus = <<>>
    /\ listedAssets = <<>>
    /\ release = <<>>
    /\ selected = <<>>
    /\ downloads = [started |-> 0, completed |-> 0]
    /\ extractionSuccessful = FALSE
    /\ binaryFound = FALSE
    /\ executables = {}
    /\ thrown = <<>>
    /\ unlinked = FALSE
    /\ outcome = "pending"
    /\ matched = <<>>
    /\ best = <<>>
    /\ TarIdle
    /\ ZipIdle
    /\ HeaderIdle

InstallNext ==
    \/ FetchReleaseInfo
    \/ SelectAsset
    \/ MakeOutputDir
    \/ ForceCheck
    \/ DownloadAsset
    \/ Pipeline
    \/ UnlinkPartial
    \/ ExtractArchive
    \/ FindBinary
    \/ UnlinkArchive
    \/ Settle

SpecInstall == InstallInit /\ [][InstallNext]_vars

-----------------------------------------------------------------------------
(* Properties of installRelease *)

BinaryCandidates ==
    LET bin == IF opts.binName # <<>> /\ opts.binName[1] # <<>>
               THEN opts.binName[1] ELSE repoName
    IN  {bin, bin \o ExeSuffix, bin \o BinSuffix}

BinaryPresent(fs) == \E p \in BinaryCandidates : Exists(fs, p)

C11_RejectionLeavesAll ==
    /\ outcome = "BinaryExists" =>
          /\ ~opts.force
          /\ BinaryPresent(outDir0.files)
          /\ outDir.files = outDir0.files
          /\ downloads.started = 0
    /\ (ipc = "checked" \/ downloads.started > 0) =>
          (opts.force \/ ~BinaryPresent(outDir0.files))

C11_CheckStep ==
    /\ ipc = "dirReady" =>
          /\ outcome' = "BinaryExists" <=> (~opts.force /\ BinaryPresent(outDir.files))
          /\ opts.force => ipc' = "checked"
    /\ ipc = "checked" => downloads'.started = downloads.started + 1

\* C11: installRelease rejects with "already exists" exactly when force is
\* false and something exists at <outputDir>/<bin>, <bin>.exe or <bin>.bin;
\* it does so before any download starts and leaves the directory contents
\* as they were; with force the check is skipped and the next step is the
\* download.
C11_ForceFlag == [](C11_RejectionLeavesAll) /\ [][C11_CheckStep]_vars

\* rejected because <outputDir>/cli.bin exists
C11_Witness ==
    /\ outcome = "BinaryExists"
    /\ opts.binName = <<<<"c", "l", "i">>>>
    /\ outDir0.files = {<<"c", "l", "i", ".", "b", "i", "n">>}

\* `name` is `template` with "{version}" replaced by the version
IsSubstitution(template, name) ==
    LET splits == {i \in 0..(Len(template) - Len(VersionPlaceholder)) :
                      SubSeq(template, i + 1, i + Len(VersionPlaceholder)) = VersionPlaceholder}
    IN  IF splits = {} THEN name = template
        ELSE \E i \in splits :
                name = SubSeq(template, 1, i) \o version
                       \o SubSeq(template, i + Len(VersionPlaceholder) + 1, Len(template))

\* platformMap has a non-empty entry for the detected platform
MapApplies == opts.mapped # <<>> /\ opts.mapped[1] # <<>>

\* the selection step has run
SelectionDone == release # <<>> /\ ipc # "fetched"

\* C12: with a non-empty platformMap entry the selected name is the entry with
\* "{version}" substituted, whatever automatic matching would find; if the
\* release has no asset of that name installRelease rejects with the
\* asset-not-in-release error, with no directory created and no download.
C12_CustomMapping ==
    (MapApplies /\ SelectionDone) =>
        /\ selected # <<>>
        /\ IsSubstitution(opts.mapped[1], selected[1])
        /\ (~\E i \in 1..Len(release[1]) : release[1][i] = selected[1]) =>
              /\ outcome = "AssetNotInRelease"
              /\ outDir = outDir0
              /\ downloads.started = 0

\* the mapped name is not in the release although automatic matching would
\* have found an asset
C12_Witness ==
    /\ MapApplies
    /\ outcome = "AssetNotInRelease"
    /\ findBestAsset(release[1], descriptor).value # <<>>

\* C13: with no platformMap entry and no asset that findBestAsset accepts,
\* installRelease writes every asset name of the release to its diagnostic
\* output and rejects with the no-matching-asset error; no directory is
\* created, nothing is downloaded, nothing is extracted.
C13_NoMatchingAsset ==
    /\ (~MapApplies /\ SelectionDone
        /\ findBestAsset(release[1], descriptor) = [threw |-> FALSE, value |-> <<>>]) =>
            outcome = "NoMatchingAsset"
    /\ outcome = "NoMatchingAsset" =>
          /\ listedAssets = release[1]
          /\ outDir = outDir0
          /\ downloads.started = 0
          /\ ~extractionSuccessful
          /\ thrown = <<>>

C13_Witness ==
    /\ outcome = "NoMatchingAsset"
    /\ Len(release[1]) >= 2
    /\ Len(listedAssets) = Len(release[1])

\* C14: a non-OK answer to the release-metadata request makes fetchReleaseInfo
\* throw, "not found" for 404 and "failed to fetch" otherwise, and return no
\* release; installRelease rejects with that error and selects no asset,
\* creates no directory, downloads and extracts nothing.
C14_LookupFailure ==
    (httpStatus # <<>> /\ ~(httpStatus[1] >= 200 /\ httpStatus[1] <= 299)) =>
        /\ outcome = IF httpStatus[1] = 404 THEN "ReleaseNotFound" ELSE "FetchFailed"
        /\ release = <<>>
        /\ selected = <<>>
        /\ outDir = outDir0
        /\ downloads.started = 0
        /\ ~extractionSuccessful
        /\ thrown = <<>>

C14_Witness ==
    /\ httpStatus = <<404>>
    /\ outcome = "ReleaseNotFound"
    /\ outDir0.files # {}

C36_AutoSelectedExtractable ==
    ~MapApplies =>
        /\ selected # <<>> => SupportedArchive(selected[1])
        /\ outcome # "UnsupportedFormat"

\* the binName option was given (a non-empty string)
BinNameGiven == opts.binName # <<>> /\ opts.binName[1] # <<>>

C37_Outcome ==
    (extractionSuccessful /\ outcome # "pending") =>
        /\ (outcome = "BinNameNotFound") <=> (BinNameGiven /\ ~binaryFound)
        /\ (~BinNameGiven /\ ~binaryFound) => outcome = "resolved"
        /\ Cardinality(executables) <= 1
        /\ ~binaryFound => executables = {}
        /\ unlinked
        /\ TempPath \notin outDir.files

C37_FilesKept ==
    extractionSuccessful => (outDir.files \ {TempPath}) \subseteq outDir'.files

-----------------------------------------------------------------------------
(* extract.ts: extractZip.  The code that follows an await runs as soon as *)
(* the awaited promise settles, before any other event is handled: the     *)
(* handler of a process event is one step together with the catch block,   *)
(* the next loop iteration and its spawn, or the final throw.              *)

\* the commands of zipTools, in order
zipTools == <<"unzip", "powershell", "7z">>

\* `code` of the 'close' event: a number, or null (<<>>) after a signal
ExitCodes == {<<0>>, <<1>>, <<9>>, <<>>}

\* the loop at iteration i: spawn zipTools[i], or leave the loop and throw
StartTool(i) ==
    IF i <= Len(zipTools)
    THEN /\ toolIndex' = i
         /\ spawned' = Append(spawned, zipTools[i])
         /\ running' = {zipTools[i]}
         /\ zpc' = "waiting"
         /\ UNCHANGED zipPromise
    ELSE /\ zipPromise' = "ZipFailed"
         /\ zpc' = "settled"
         /\ running' = {}
         /\ UNCHANGED <<toolIndex, spawned>>

\* try { await access(resolvedArchivePath) } catch { throw ... }
ZipAccess ==
    /\ zpc = "start"
    /\ \E ok \in BOOLEAN :
        IF ok THEN zpc' = "mkdir" /\ UNCHANGED zipPromise
        ELSE zpc' = "settled" /\ zipPromise' = "ArchiveMissing"
    /\ UNCHANGED <<toolIndex, spawned, running, exits, lateClose>>
    /\ UNCHANGED <<tarVars, matchVars, installVars, headerVars>>

\* await fs.mkdir(resolvedOutputDir, { recursive: true }), then the first
\* iteration of the loop
ZipMkdir ==
    /\ zpc = "mkdir"
    /\ \E ok \in BOOLEAN :
        IF ok THEN StartTool(1)
        ELSE /\ zpc' = "settled"
             /\ zipPromise' = "MkdirFailed"
             /\ UNCHANGED <<toolIndex, spawned, running>>
    /\ UNCHANGED <<exits, lateClose>>
    /\ UNCHANGED <<tarVars, matchVars, installVars, headerVars>>

\* the 'close' handler without the `return` after a successful tool: the
\* loop goes on to the next tool
ProcClose_NoReturn ==
    /\ zpc = "waiting"
    /\ \E code \in ExitCodes :
        /\ exits' = Append(exits, [command |-> zipTools[toolIndex], error |-> FALSE,
                                   code |-> code])
        /\ StartTool(toolIndex + 1)
    /\ UNCHANGED lateClose
    /\ UNCHANGED <<tarVars, matchVars, installVars, headerVars>>

\* proc.on('close', code => code === 0 ? resolve() : reject(...)) for the
\* process of the current tool
ProcClose ==
    /\ zpc = "waiting"
    /\ \E code \in ExitCodes :
        /\ exits' = Append(exits, [command |-> zipTools[toolIndex], error |-> FALSE,
                                   code |-> code])
        /\ IF code = <<0>>
           THEN /\ zipPromise' = "resolved"
                /\ zpc' = "settled"
                /\ running' = {}
                /\ UNCHANGED <<toolIndex, spawned>>
           ELSE StartTool(toolIndex + 1)
    /\ UNCHANGED lateClose
    /\ UNCHANGED <<tarVars, matchVars, installVars, headerVars>>

\* proc.on('error', error => reject(...)): the process could not be spawned;
\* its 'close' event follows later
ProcError ==
    /\ zpc = "waiting"
    /\ exits' = Append(exits, [command |-> zipTools[toolIndex], error |-> TRUE,
                               code |-> <<>>])
    /\ lateClose' = lateClose \cup {zipTools[toolIndex]}
    /\ StartTool(toolIndex + 1)
    /\ UNCHANGED <<tarVars, matchVars, installVars, headerVars>>

\* the 'close' event of a process that had emitted 'error': its code is not
\* 0, and reject() on the promise that is already rejected does nothing
LateClose ==
    /\ \E command \in lateClose : lateClose' = lateClose \ {command}
    /\ UNCHANGED <<zpc, toolIndex, spawned, running, exits, zipPromise>>
    /\ UNCHANGED <<tarVars, matchVars, installVars, headerVars>>

ZipInit ==
    /\ zpc = "start"
    /\ toolIndex = 0
    /\ spawned = <<>>
    /\ running = {}
    /\ exits = <<>>
    /\ lateClose = {}
    /\ zipPromise = "pending"
    /\ TarIdle
    /\ MatchIdle
    /\ InstallIdle
    /\ HeaderIdle

ZipNext == ZipAccess \/ ZipMkdir \/ ProcClose \/ ProcError \/ LateClose

SpecZip == ZipInit /\ [][ZipNext]_vars

-----------------------------------------------------------------------------
(* Properties of extractZip *)

\* the order in which the tools are to be tried
ZipToolOrder == <<"unzip", "powershell", "7z">>

\* the process ended without extracting: spawn error or a code other than 0
ToolFailed(e) == e.error \/ e.code # <<0>>

\* C16: the tools are started in the order unzip, powershell, 7z, one at a
\* time, each only after all tools before it have failed; extractZip resolves
\* when a tool exits with code 0 and starts no tool after that; it rejects
\* with the failed-to-extract error exactly when all three tools failed.
C16_ZipFallbackChain ==
    /\ Len(spawned) <= Len(ZipToolOrder)
    /\ spawned = SubSeq(ZipToolOrder, 1, Len(spawned))
    /\ Cardinality(running) <= 1
    /\ Len(exits) <= Len(spawned)
    /\ Len(exits) + Cardinality(running) = Len(spawned)
    /\ \A k \in 1..Len(exits) : exits[k].command = spawned[k]
    /\ \A k \in 1..(Len(spawned) - 1) : ToolFailed(exits[k])
    /\ (\E k \in 1..Len(exits) : ~ToolFailed(exits[k])) <=> zipPromise = "resolved"
    /\ zipPromise = "resolved" => running = {}
    /\ zipPromise = "ZipFailed" <=>
          (Len(exits) = Len(ZipToolOrder) /\ \A k \in 1..Len(exits) : ToolFailed(exits[k]))

\* the third tool succeeded after a spawn error and a non-zero exit
C16_Witness ==
    /\ zipPromise = "resolved"
    /\ Len(spawned) = 3
    /\ exits[1].error
    /\ exits[2].code = <<1>>

=============================================================================
